---------------------------- MODULE Spec2Model ----------------------------
(***************************************************************************)
(* A model of declpyqt5.py: keys, the widget descriptors with their build  *)
(* (hash) and paint passes, and the Application that rebuilds and repaints *)
(* the displayed tree.                                                     *)
(*                                                                         *)
(* Python values are tagged records [t, v]; None is the string "None" for  *)
(* callbacks and the record PyNone for widgets.  hash() of a formatted     *)
(* string is modelled by the formatted string itself, kept as a tuple of   *)
(* its literal and substituted parts: equal tuples are equal strings and   *)
(* so equal hashes, whatever the hash function.                            *)
(***************************************************************************)
EXTENDS Integers, Sequences, FiniteSets, TLC

VARIABLES
    \* ---- keys (Key / ValueKey / UniqueKey) ----
    keys,           \* the key instances constructed so far, by instance
    nextUuid,       \* the next value uuid.uuid4() returns
    cmp,            \* the last __eq__ call: [a, b, r]
    \* ---- one widget through construction, build, paint, native events ----
    wargs,          \* the constructor arguments
    wobj,           \* the constructed widget, or the exception raised
    wphase,         \* "args" | "constructed" | "built" | "painted"
    wpaint,         \* what paintWidget() produced: [err, elem, connects]
    userCalls,      \* the user callbacks native events have invoked
    \* ---- a second widget differing from the first in one declared field ----
    targs,
    tobj,
    tfield,
    \* ---- the Application ----
    ctxApplication, \* BuildContext._application
    running,        \* Application._running
    state,          \* Application._state
    layout,         \* Application._layout: [exists, items]
    deleted,        \* ids of the elements deleteLater() was called on
    shown,          \* ids of the elements ever added to a window layout
    nextId,         \* the next native element's id
    builderCalls,   \* how often the builder was invoked
    runCalls,       \* how often run() was called
    rerunBuilds,    \* how often run() invoked the builder after an earlier
                    \* run() had entered the event loop
    newState,       \* the tree of the latest builder call, once built
    loop,           \* "idle" | "exec" | "returned": QApplication.exec_()
    lastOp,         \* the last operation called
    lastErr         \* how it ended: "ok" or the exception

keyVars == <<keys, nextUuid, cmp>>
widgetVars == <<wargs, wobj, wphase, wpaint, userCalls>>
twinVars == <<targs, tobj, tfield>>
appVars == <<ctxApplication, running, state, layout, deleted, shown, nextId,
             builderCalls, runCalls, rerunBuilds, newState, loop, lastOp,
             lastErr>>
vars == <<keyVars, widgetVars, twinVars, appVars>>

-----------------------------------------------------------------------------
(* Python values *)

MaxVal == 2

\* The values a ValueKey is given: ints, bools and strs.
PyValues ==
    {[t |-> "int", v |-> n] : n \in 0..MaxVal}
        \cup {[t |-> "bool", v |-> n] : n \in 0..1}
        \cup {[t |-> "str", v |-> n] : n \in 0..1}

\* Python's == on these values: bool is an int, a str equals only a str.
PyEq(a, b) ==
    IF a.t = "str" \/ b.t = "str"
    THEN a.t = b.t /\ a.v = b.v
    ELSE a.v = b.v

-----------------------------------------------------------------------------
(* Key, ValueKey, UniqueKey *)

MaxKeys == 3

isinstance(obj, cls) ==
    CASE cls = "Key" -> obj.cls \in {"Key", "ValueKey", "UniqueKey"}
      [] OTHER -> obj.cls = cls

Key__init__ == [cls |-> "Key"]

ValueKey__init__(value) == [cls |-> "ValueKey", value |-> value]

UniqueKey__init__(uuid4) == [cls |-> "UniqueKey", hash |-> uuid4]

Key__eq__(self, other) == TRUE

ValueKey__eq__NoTypeCheck(self, other) ==
    IF other.cls = "ValueKey" THEN PyEq(self.value, other.value) ELSE TRUE

ValueKey__eq__(self, other) ==
    IF ~isinstance(other, "ValueKey")
    THEN FALSE
    ELSE PyEq(self.value, other.value)

UniqueKey__eq__(self, other) ==
    IF ~isinstance(other, "UniqueKey")
    THEN FALSE
    ELSE self.hash = other.hash

\* self.__eq__(other), dispatched on self's class.
KeyEquals(self, other) ==
    CASE self.cls = "Key" -> Key__eq__(self, other)
      [] self.cls = "ValueKey" -> ValueKey__eq__(self, other)
      [] self.cls = "UniqueKey" -> UniqueKey__eq__(self, other)

NoCmp == [a |-> 0, b |-> 0, r |-> FALSE]

KeysInit ==
    /\ keys = <<>>
    /\ nextUuid = 1
    /\ cmp = NoCmp

NewKey ==
    /\ Len(keys) < MaxKeys
    /\ keys' = Append(keys, Key__init__)
    /\ UNCHANGED <<nextUuid, cmp>>
    /\ UNCHANGED <<widgetVars, twinVars, appVars>>

NewValueKey ==
    /\ Len(keys) < MaxKeys
    /\ \E value \in PyValues : keys' = Append(keys, ValueKey__init__(value))
    /\ UNCHANGED <<nextUuid, cmp>>
    /\ UNCHANGED <<widgetVars, twinVars, appVars>>

\* uuid.uuid4() is modelled as never repeating.
NewUniqueKey ==
    /\ Len(keys) < MaxKeys
    /\ keys' = Append(keys, UniqueKey__init__(nextUuid))
    /\ nextUuid' = nextUuid + 1
    /\ UNCHANGED cmp
    /\ UNCHANGED <<widgetVars, twinVars, appVars>>

Compare ==
    /\ \E a \in 1..Len(keys), b \in 1..Len(keys) :
          cmp' = [a |-> a, b |-> b, r |-> KeyEquals(keys[a], keys[b])]
    /\ UNCHANGED <<keys, nextUuid>>
    /\ UNCHANGED <<widgetVars, twinVars, appVars>>

-----------------------------------------------------------------------------
(* Widgets: construction *)

MaxChildren == 2
MaxFlex == 2
MaxRows == 2

PyNone == [kind |-> "None"]

Raise(exc) == [kind |-> "raise", exc |-> exc]

\* A None passed where a str is expected.
NoneStr == "<None>"

Strings == {"", "a"}

\* None and two distinct functions.
Callbacks == {"None", "f", "g"}

\* type(cb), as '%s' formats it.
TypeOf(cb) ==
    IF cb = "None" THEN "<class 'NoneType'>" ELSE "<class 'function'>"

\* '%s' % a bool
PyStr(b) == IF b THEN "True" ELSE "False"

\* The flex arguments tried: ints around 0, a bool, a float and a str.
FlexValues ==
    {[t |-> "int", v |-> n] : n \in -1..MaxFlex}
        \cup {[t |-> "bool", v |-> 1], [t |-> "bool", v |-> 0],
              [t |-> "float", v |-> 1], [t |-> "str", v |-> 1]}

PyInt(n) == [t |-> "int", v |-> n]

\* isinstance(flex, int): bool is a subclass of int.
isinstanceInt(x) == x.t \in {"int", "bool"}

Alignment == {"none", "start", "center", "end"}

\* Widget.__init__: _context = None, _hash = 0 (the key is stored and never read).
Widget__init__(kind) == [kind |-> kind, context |-> "None", hash |-> <<"0">>]

Merge(f, g) == [x \in (DOMAIN f) \cup (DOMAIN g) |->
                   IF x \in DOMAIN g THEN g[x] ELSE f[x]]

Text__init__(text) ==
    Merge(Widget__init__("Text"),
          [text |-> IF text = NoneStr THEN "" ELSE text])

LabelButton__init__(label, tooltip, onTap) ==
    Merge(Widget__init__("LabelButton"),
          [label |-> label, tooltip |-> tooltip, ontap |-> onTap])

TextField__init__(placeholder, value, hidden, onChanged) ==
    Merge(Widget__init__("TextField"),
          [placeholder |-> placeholder, value |-> value,
           onchanged |-> onChanged, hidden |-> hidden])

Expanded__init__AllowZero(child, flex) ==
    IF child = PyNone
    THEN Raise("ValueError")
    ELSE IF ~isinstanceInt(flex) \/ flex.v < 0
    THEN Raise("ValueError")
    ELSE Merge(Widget__init__("Expanded"), [child |-> child, flex |-> flex])

Expanded__init__(child, flex) ==
    IF child = PyNone
    THEN Raise("ValueError")
    ELSE IF ~isinstanceInt(flex) \/ flex.v <= 0
    THEN Raise("ValueError")
    ELSE Merge(Widget__init__("Expanded"), [child |-> child, flex |-> flex])

\* isinstance(child, Expanded)
isExpanded(child) == child.kind = "Expanded"

\* The synthetic spacer: Expanded(child=Text(''), flex=1)
Spacer == Expanded__init__(Text__init__(""), PyInt(1))

NotNone(children) == SelectSeq(children, LAMBDA c : c # PyNone)

AxisAlignedBox__init__SpacersAlways(children, vertical, alignment) ==
    Merge(Widget__init__("AxisAlignedBox"),
          [children |->
               (IF alignment \in {"center", "end"} THEN <<Spacer>> ELSE <<>>)
                   \o NotNone(children)
                   \o (IF alignment \in {"start", "center"}
                       THEN <<Spacer>> ELSE <<>>),
           vertical |-> vertical])

AxisAlignedBox__init__(children, vertical, alignment) ==
    LET has_expanded ==
            \E i \in 1..Len(children) :
                children[i] # PyNone /\ isExpanded(children[i])
        before ==
            IF ~has_expanded /\ alignment \in {"center", "end"}
            THEN <<Spacer>> ELSE <<>>
        after ==
            IF ~has_expanded /\ alignment \in {"start", "center"}
            THEN <<Spacer>> ELSE <<>>
    IN  Merge(Widget__init__("AxisAlignedBox"),
              [children |-> before \o NotNone(children) \o after,
               vertical |-> vertical])

\* Column and Row keep the declared list; build() makes the box.
Column__init__(children, alignment) ==
    Merge(Widget__init__("Column"),
          [children |-> children, alignment |-> alignment, child |-> PyNone])

Row__init__(children, alignment) ==
    Merge(Widget__init__("Row"),
          [children |-> children, alignment |-> alignment, child |-> PyNone])

TableView__init__(rows, columns, headers, data, onSelected, onChanged) ==
    Merge(Widget__init__("TableView"),
          [rows |-> rows, cols |-> columns, headers |-> headers,
           data |-> data, onselected |-> onSelected, onchanged |-> onChanged])

DropdownList__init__(items, index, onChanged) ==
    Merge(Widget__init__("DropdownList"),
          [items |-> items, index |-> index, onchanged |-> onChanged])

\* The constructor call the arguments record stands for.
Construct(a) ==
    CASE a.kind = "Text" -> Text__init__(a.text)
      [] a.kind = "LabelButton" -> LabelButton__init__(a.label, a.tooltip, a.onTap)
      [] a.kind = "TextField" ->
            TextField__init__(a.placeholder, a.value, a.hidden, a.onChanged)
      [] a.kind = "Expanded" -> Expanded__init__(a.child, a.flex)
      [] a.kind = "AxisAlignedBox" ->
            AxisAlignedBox__init__(a.children, a.vertical, a.alignment)
      [] a.kind = "Column" -> Column__init__(a.children, a.alignment)
      [] a.kind = "Row" -> Row__init__(a.children, a.alignment)
      [] a.kind = "TableView" ->
            TableView__init__(a.rows, a.columns, a.headers, a.data,
                              a.onSelected, a.onChanged)
      [] a.kind = "DropdownList" ->
            DropdownList__init__(a.items, a.index, a.onChanged)

-----------------------------------------------------------------------------
(* Widgets: build(context), which stores the context and the hash *)

RECURSIVE Build(_, _)

\* Widget.build: the base class part every build() starts with.
Widget_build(self, context) ==
    [self EXCEPT !.context = context, !.hash = <<"0">>]

Text_build(self, context) ==
    [Widget_build(self, context) EXCEPT
        !.hash = <<"Text(text=", self.text, ")">>]

LabelButton_build(self, context) ==
    [Widget_build(self, context) EXCEPT
        !.hash = <<"LabelButton(label=", self.label, ",tooltip=", self.tooltip,
                   ",onTap=", TypeOf(self.ontap), ")">>]

TextField_build(self, context) ==
    [Widget_build(self, context) EXCEPT
        !.hash = <<"TextField(placeholder=", self.placeholder,
                   ",hidden=", PyStr(self.hidden),
                   ",onChanged=", TypeOf(self.onchanged), ")">>]

Expanded_build(self, context) ==
    LET child == Build(self.child, context)
    IN  [Widget_build(self, context) EXCEPT
            !.child = child,
            !.hash = <<"Expanded(child=", child.hash,
                       ",flex=", self.flex.v, ")">>]

AxisAlignedBox_build(self, context) ==
    LET children == [i \in 1..Len(self.children) |->
                        Build(self.children[i], context)]
    IN  [Widget_build(self, context) EXCEPT
            !.children = children,
            !.hash = <<"AxisAlignedBox(children=[",
                       [i \in 1..Len(children) |-> children[i].hash], "])">>]

Column_build(self, context) ==
    LET child == Build(AxisAlignedBox__init__(self.children, TRUE,
                                              self.alignment), context)
        \* the declared children are the box's children: built with it
        children == [i \in 1..Len(self.children) |->
                        IF self.children[i] = PyNone THEN PyNone
                        ELSE Build(self.children[i], context)]
    IN  [Widget_build(self, context) EXCEPT
            !.children = children,
            !.child = child,
            !.hash = <<"Column(", child.hash, ")">>]

Row_build(self, context) ==
    LET child == Build(AxisAlignedBox__init__(self.children, FALSE,
                                              self.alignment), context)
        \* the declared children are the box's children: built with it
        children == [i \in 1..Len(self.children) |->
                        IF self.children[i] = PyNone THEN PyNone
                        ELSE Build(self.children[i], context)]
    IN  [Widget_build(self, context) EXCEPT
            !.children = children,
            !.child = child,
            !.hash = <<"Row(", child.hash, ")">>]

TableView_build(self, context) ==
    [Widget_build(self, context) EXCEPT
        !.hash = <<"TableView(rows=", self.rows, ",columns=", self.cols,
                   ",data=", self.data, ")">>]

DropdownList_build(self, context) ==
    [Widget_build(self, context) EXCEPT
        !.hash = <<"DropdownList(items=", self.items, ")">>]

\* self.build(context), dispatched on the widget's class.
Build(self, context) ==
    CASE self.kind = "Text" -> Text_build(self, context)
      [] self.kind = "LabelButton" -> LabelButton_build(self, context)
      [] self.kind = "TextField" -> TextField_build(self, context)
      [] self.kind = "Expanded" -> Expanded_build(self, context)
      [] self.kind = "AxisAlignedBox" -> AxisAlignedBox_build(self, context)
      [] self.kind = "Column" -> Column_build(self, context)
      [] self.kind = "Row" -> Row_build(self, context)
      [] self.kind = "TableView" -> TableView_build(self, context)
      [] self.kind = "DropdownList" -> DropdownList_build(self, context)

-----------------------------------------------------------------------------
(* Widgets: paintWidget(), which makes the native element *)

RECURSIVE Paint(_)
RECURSIVE ConcatConnects(_, _)

NoElem == [qt |-> "None"]

PaintOk(elem, connects) == [err |-> "ok", elem |-> elem, connects |-> connects]

PaintRaise(exc, connects) ==
    [err |-> exc, elem |-> NoElem, connects |-> connects]

\* signal.connect(slot) of the host toolkit: a slot is the user's callable
\* itself (via = "direct") or a closure of paintWidget; PyQt5 raises
\* TypeError for connect(None).
connect(elem, signal, via, cb) ==
    LET c == [signal |-> signal, via |-> via, cb |-> cb]
    IN  IF via = "direct" /\ cb = "None"
        THEN PaintRaise("TypeError", <<c>>)
        ELSE PaintOk(elem, <<c>>)

Text_paintWidget(self) ==
    PaintOk([qt |-> "QLabel", text |-> self.text], <<>>)

LabelButton_paintWidget(self) ==
    LET widget == [qt |-> "QPushButton", text |-> self.label,
                   toolTip |-> self.tooltip]
    IN  IF self.ontap # "None"
        THEN connect(widget, "clicked", "direct", self.ontap)
        ELSE PaintOk(widget, <<>>)

TextField_paintWidget(self) ==
    LET widget == [qt |-> "QLineEdit", text |-> self.value,
                   echoMode |-> IF self.hidden THEN "Password" ELSE "Normal"]
    IN  connect(widget, "textChanged", "direct", self.onchanged)

Expanded_paintWidget(self) == Paint(self.child)

\* The connect calls of the first k children, in order.
ConcatConnects(rs, k) ==
    IF k = 0 THEN <<>> ELSE ConcatConnects(rs, k - 1) \o rs[k].connects

AxisAlignedBox_paintWidgetNoStretch(self) ==
    LET n == Len(self.children)
        rs == [i \in 1..n |-> Paint(self.children[i])]
        bad == {i \in 1..n : rs[i].err # "ok"}
        first == CHOOSE i \in bad : \A j \in bad : i <= j
    IN  IF bad # {}
        THEN PaintRaise(rs[first].err, ConcatConnects(rs, first))
        ELSE PaintOk([qt |-> "QWidget",
                      layout |-> [cls |-> IF self.vertical THEN "QVBoxLayout"
                                          ELSE "QHBoxLayout",
                                  items |-> [i \in 1..n |-> rs[i].elem],
                                  stretch |-> [i \in 1..n |-> 0]]],
                     ConcatConnects(rs, n))

AxisAlignedBox_paintWidget(self) ==
    LET n == Len(self.children)
        rs == [i \in 1..n |-> Paint(self.children[i])]
        bad == {i \in 1..n : rs[i].err # "ok"}
        first == CHOOSE i \in bad : \A j \in bad : i <= j
        flexes == [i \in 1..n |->
                      IF isExpanded(self.children[i])
                      THEN self.children[i].flex.v ELSE 0]
    IN  IF bad # {}
        THEN PaintRaise(rs[first].err, ConcatConnects(rs, first))
        ELSE PaintOk([qt |-> "QWidget",
                      layout |-> [cls |-> IF self.vertical THEN "QVBoxLayout"
                                          ELSE "QHBoxLayout",
                                  items |-> [i \in 1..n |-> rs[i].elem],
                                  stretch |-> flexes]],
                     ConcatConnects(rs, n))

\* Column and Row paint the box build() made; without a build there is none.
Column_paintWidget(self) ==
    IF self.child = PyNone THEN PaintRaise("AttributeError", <<>>)
    ELSE Paint(self.child)

Row_paintWidget(self) ==
    IF self.child = PyNone THEN PaintRaise("AttributeError", <<>>)
    ELSE Paint(self.child)

TableView_getdataitem(self, row, col) ==
    IF row < Len(self.data) /\ col < Len(self.data[row + 1])
    THEN self.data[row + 1][col + 1]
    ELSE ""

\* Both closures are connected, whether or not a callback was given.
TableView_paintWidget(self) ==
    LET widget ==
            [qt |-> "QTableWidget",
             rowCount |-> self.rows, columnCount |-> self.cols,
             items |-> [row \in 0..(self.rows - 1) |->
                          [col \in 0..(self.cols - 1) |->
                              TableView_getdataitem(self, row, col)]],
             headers |-> [i \in 0..(self.cols - 1) |->
                            IF i < Len(self.headers)
                            THEN <<"str", self.headers[i + 1]>>
                            ELSE <<"int", i + 1>>]]
        c1 == connect(widget, "cellClicked", "onSelect", self.onselected)
        c2 == connect(widget, "cellChanged", "onChanged", self.onchanged)
    IN  PaintOk(widget, c1.connects \o c2.connects)

DropdownList_paintWidget(self) ==
    connect([qt |-> "QComboBox", items |-> self.items,
             currentIndex |-> self.index],
            "currentIndexChanged", "onSelected", self.onchanged)

\* self.paintWidget(), dispatched on the widget's class.
Paint(self) ==
    CASE self.kind = "Text" -> Text_paintWidget(self)
      [] self.kind = "LabelButton" -> LabelButton_paintWidget(self)
      [] self.kind = "TextField" -> TextField_paintWidget(self)
      [] self.kind = "Expanded" -> Expanded_paintWidget(self)
      [] self.kind = "AxisAlignedBox" -> AxisAlignedBox_paintWidget(self)
      [] self.kind = "Column" -> Column_paintWidget(self)
      [] self.kind = "Row" -> Row_paintWidget(self)
      [] self.kind = "TableView" -> TableView_paintWidget(self)
      [] self.kind = "DropdownList" -> DropdownList_paintWidget(self)

\* A native signal fires: the connected slot runs.  A closure of paintWidget
\* calls the user's callback only if there is one; a slot connected directly
\* is the user's callback.
SlotCalls(c) ==
    IF c.via = "direct" THEN <<c.cb>>
    ELSE IF c.cb # "None" THEN <<c.cb>> ELSE <<>>

-----------------------------------------------------------------------------
(* The constructor calls tried *)

SeqsUpTo(S, n) == UNION {[1..k -> S] : k \in 0..n}

WidgetA == Text__init__("a")
WidgetB == LabelButton__init__("a", "", "f")

\* The children a layout widget is given: None, plain widgets, an explicit
\* Expanded, a text field without a callback and a nested Column.
ChildPool ==
    {PyNone, WidgetA, WidgetB,
     Expanded__init__(WidgetA, PyInt(2)),
     TextField__init__("", "", FALSE, "None"),
     Column__init__(<<WidgetA>>, "end")}

ChildLists == SeqsUpTo(ChildPool, MaxChildren)

TextArgs == [kind : {"Text"}, text : Strings \cup {NoneStr}]

LabelButtonArgs ==
    [kind : {"LabelButton"}, label : Strings, tooltip : Strings,
     onTap : Callbacks]

TextFieldArgs ==
    [kind : {"TextField"}, placeholder : Strings, value : Strings,
     hidden : BOOLEAN, onChanged : Callbacks]

TableViewArgs ==
    [kind : {"TableView"}, rows : 1..MaxRows, columns : 1..MaxRows,
     headers : {<<>>, <<"h">>}, data : {<<>>, <<<<"a", "b">>>>},
     onSelected : {"None", "f"}, onChanged : {"None", "g"}]

DropdownListArgs ==
    [kind : {"DropdownList"}, items : {<<"a">>, <<"a", "b">>},
     index : 0..1, onChanged : Callbacks]

ExpandedArgs ==
    [kind : {"Expanded"}, child : {PyNone, WidgetA, WidgetB},
     flex : FlexValues]

AxisAlignedBoxArgs ==
    [kind : {"AxisAlignedBox"}, children : ChildLists, vertical : BOOLEAN,
     alignment : Alignment]

ColumnArgs == [kind : {"Column"}, children : ChildLists, alignment : Alignment]

RowArgs == [kind : {"Row"}, children : ChildLists, alignment : Alignment]

WidgetArgs ==
    TextArgs \cup LabelButtonArgs \cup TextFieldArgs \cup TableViewArgs
        \cup DropdownListArgs \cup ExpandedArgs \cup AxisAlignedBoxArgs
        \cup ColumnArgs \cup RowArgs

ArgsOfKind(kind) == {a \in WidgetArgs : a.kind = kind}

-----------------------------------------------------------------------------
(* One widget: constructed, built, painted, then its native signals fire *)

MaxEvents == 2

NoPaint == [err |-> "unpainted", elem |-> NoElem, connects |-> <<>>]

WidgetIdle ==
    /\ wargs = PyNone
    /\ wobj = PyNone
    /\ wphase = "none"
    /\ wpaint = NoPaint
    /\ userCalls = <<>>

TwinIdle ==
    /\ targs = PyNone
    /\ tobj = PyNone
    /\ tfield = "none"

WidgetInit ==
    /\ wargs \in WidgetArgs
    /\ wobj = PyNone
    /\ wphase = "args"
    /\ wpaint = NoPaint
    /\ userCalls = <<>>

WConstruct ==
    /\ wphase = "args"
    /\ wobj' = Construct(wargs)
    /\ wphase' = IF wobj'.kind = "raise" THEN "raised" ELSE "constructed"
    /\ UNCHANGED <<wargs, wpaint, userCalls>>
    /\ UNCHANGED <<keyVars, twinVars, appVars>>

WBuild ==
    /\ wphase = "constructed"
    /\ wobj' = Build(wobj, "ctx")
    /\ wphase' = "built"
    /\ UNCHANGED <<wargs, wpaint, userCalls>>
    /\ UNCHANGED <<keyVars, twinVars, appVars>>

WPaint ==
    /\ wphase = "built"
    /\ wpaint' = Paint(wobj)
    /\ wphase' = "painted"
    /\ UNCHANGED <<wargs, wobj, userCalls>>
    /\ UNCHANGED <<keyVars, twinVars, appVars>>

\* The host emits a signal of the painted element.
WNativeEvent ==
    /\ wphase = "painted"
    /\ wpaint.err = "ok"
    /\ Len(userCalls) < MaxEvents
    /\ \E i \in 1..Len(wpaint.connects) :
          userCalls' = userCalls \o SlotCalls(wpaint.connects[i])
    /\ UNCHANGED <<wargs, wobj, wphase, wpaint>>
    /\ UNCHANGED <<keyVars, twinVars, appVars>>

-----------------------------------------------------------------------------
(* BuildContext and Application *)

MaxCalls == 3

\* What BuildContext defines: __init__ sets two fields, and one method.
BuildContextAttrs == {"_application", "counter", "setState"}

\* What the user's builder does when called: it raises, returns None, or
\* returns a tree.  The text field has no callback.
BuilderOutcomes ==
    {Raise("Exception"), PyNone,
     Column__init__(<<Text__init__("hi"), LabelButton__init__("go", "", "f")>>,
                    "none"),
     TextField__init__("", "", FALSE, "None"),
     Text__init__("a")}

NoLayout == [exists |-> FALSE, items |-> <<>>]

\* Application.__init__: with or without a context given, the context's
\* _application is the new Application.
AppInit ==
    /\ ctxApplication = "app"
    /\ running = FALSE
    /\ state = PyNone
    /\ layout = NoLayout
    /\ deleted = {}
    /\ shown = {}
    /\ nextId = 1
    /\ builderCalls = 0
    /\ runCalls = 0
    /\ rerunBuilds = 0
    /\ newState = PyNone
    /\ loop = "idle"
    /\ lastOp = "none"
    /\ lastErr = "ok"

\* The painted element as the window layout holds it: id names the native
\* object, gen the builder call its tree came from.
Item(id, gen, elem) == [id |-> id, gen |-> gen, elem |-> elem]

Application_setStateNoTake(out) ==
    /\ builderCalls < MaxCalls
    /\ builderCalls' = builderCalls + 1
    /\ lastOp' = "Application.setState"
    /\ IF out.kind = "raise"
       THEN /\ lastErr' = "builder:Exception"
            /\ UNCHANGED <<layout, deleted, shown, nextId, newState>>
       ELSE IF out = PyNone
       THEN /\ lastErr' = "build:AttributeError"
            /\ UNCHANGED <<layout, deleted, shown, nextId, newState>>
       ELSE /\ newState' = Build(out, "ctx")
            /\ IF ~layout.exists
               THEN /\ lastErr' = "layout:AttributeError"
                    /\ UNCHANGED <<layout, deleted, shown, nextId>>
               ELSE LET p == Paint(newState')
                    IN  /\ UNCHANGED deleted
                        /\ IF p.err # "ok"
                           THEN /\ lastErr' = "paint:TypeError"
                                /\ UNCHANGED <<layout, shown, nextId>>
                           ELSE /\ lastErr' = "ok"
                                /\ layout' = [layout EXCEPT !.items =
                                      Append(@, Item(nextId, builderCalls', p.elem))]
                                /\ shown' = shown \cup {nextId}
                                /\ nextId' = nextId + 1
    /\ UNCHANGED <<ctxApplication, running, state, runCalls, rerunBuilds, loop>>

Application_setStateTakeFirst(out) ==
    /\ builderCalls < MaxCalls
    /\ builderCalls' = builderCalls + 1
    /\ lastOp' = "Application.setState"
    /\ IF ~layout.exists
       THEN /\ lastErr' = "layout:AttributeError"
            /\ UNCHANGED <<layout, deleted, shown, nextId, newState>>
       ELSE IF layout.items = <<>>
       THEN /\ lastErr' = "takeAt:AttributeError"
            /\ UNCHANGED <<layout, deleted, shown, nextId, newState>>
       ELSE /\ deleted' = deleted \cup {Head(layout.items).id}
            /\ IF out.kind = "raise"
               THEN /\ lastErr' = "builder:Exception"
                    /\ layout' = [layout EXCEPT !.items = Tail(@)]
                    /\ UNCHANGED <<shown, nextId, newState>>
               ELSE IF out = PyNone
               THEN /\ lastErr' = "build:AttributeError"
                    /\ layout' = [layout EXCEPT !.items = Tail(@)]
                    /\ UNCHANGED <<shown, nextId, newState>>
               ELSE LET p == Paint(newState')
                    IN  /\ newState' = Build(out, "ctx")
                        /\ IF p.err # "ok"
                           THEN /\ lastErr' = "paint:TypeError"
                                /\ layout' = [layout EXCEPT !.items = Tail(@)]
                                /\ UNCHANGED <<shown, nextId>>
                           ELSE /\ lastErr' = "ok"
                                /\ layout' = [layout EXCEPT !.items =
                                      Append(Tail(@),
                                             Item(nextId, builderCalls', p.elem))]
                                /\ shown' = shown \cup {nextId}
                                /\ nextId' = nextId + 1
    /\ UNCHANGED <<ctxApplication, running, state, runCalls, rerunBuilds, loop>>

\* Application.setState, the builder doing `out` this time: builder, build,
\* takeAt(0), deleteLater(), paintWidget(), addWidget().  self._layout exists
\* only once run() has made it, and takeAt(0) of an empty layout returns None.
Application_setState(out) ==
    /\ builderCalls < MaxCalls
    /\ builderCalls' = builderCalls + 1
    /\ lastOp' = "Application.setState"
    /\ IF out.kind = "raise"
       THEN /\ lastErr' = "builder:Exception"
            /\ UNCHANGED <<layout, deleted, shown, nextId, newState>>
       ELSE IF out = PyNone
       THEN /\ lastErr' = "build:AttributeError"
            /\ UNCHANGED <<layout, deleted, shown, nextId, newState>>
       ELSE /\ newState' = Build(out, "ctx")
            /\ IF ~layout.exists
               THEN /\ lastErr' = "layout:AttributeError"
                    /\ UNCHANGED <<layout, deleted, shown, nextId>>
               ELSE IF layout.items = <<>>
               THEN /\ lastErr' = "takeAt:AttributeError"
                    /\ UNCHANGED <<layout, deleted, shown, nextId>>
               ELSE LET p == Paint(newState')
                    IN  /\ deleted' = deleted \cup {Head(layout.items).id}
                        /\ IF p.err # "ok"
                           THEN /\ lastErr' = "paint:TypeError"
                                /\ layout' = [layout EXCEPT !.items = Tail(@)]
                                /\ UNCHANGED <<shown, nextId>>
                           ELSE /\ lastErr' = "ok"
                                /\ layout' = [layout EXCEPT !.items =
                                      Append(Tail(@),
                                             Item(nextId, builderCalls', p.elem))]
                                /\ shown' = shown \cup {nextId}
                                /\ nextId' = nextId + 1
    /\ UNCHANGED <<ctxApplication, running, state, runCalls, rerunBuilds, loop>>

\* BuildContext.setState
BuildContext_setState(out) ==
    IF ctxApplication # "None"
    THEN Application_setState(out)
    ELSE /\ lastOp' = "BuildContext.setState"
         /\ lastErr' = "ok"
         /\ UNCHANGED <<ctxApplication, running, state, layout, deleted, shown,
                        nextId, builderCalls, runCalls, rerunBuilds, newState,
                        loop>>

\* Widget.setState: with no context it prints and goes on; then it calls
\* self._context.repaint().
Widget_setState(self) ==
    /\ lastOp' = IF self.context = "None" THEN "Widget.setState unbuilt"
                 ELSE "Widget.setState"
    /\ lastErr' = IF self.context = "None" \/ "repaint" \notin BuildContextAttrs
                  THEN "AttributeError" ELSE "ok"
    /\ UNCHANGED <<ctxApplication, running, state, layout, deleted, shown,
                   nextId, builderCalls, runCalls, rerunBuilds, newState, loop>>

\* Application.run, the builder doing `out` and the host accepting a further
\* QApplication or not (hostOk): the guard on _running, builder, build,
\* QApplication, window and layout, paintWidget(), addWidget(), show(), exec_().
\* Nothing in the class assigns _running after __init__.
Application_run(out, hostOk) ==
    /\ runCalls' = runCalls + 1
    /\ lastOp' = "run"
    /\ UNCHANGED <<ctxApplication, running, deleted>>
    /\ IF running
       THEN /\ lastErr' = "ok"
            /\ UNCHANGED <<state, layout, shown, nextId, builderCalls,
                           rerunBuilds, newState, loop>>
       ELSE /\ builderCalls < MaxCalls
            /\ builderCalls' = builderCalls + 1
            /\ rerunBuilds' = IF loop # "idle" THEN rerunBuilds + 1
                              ELSE rerunBuilds
            /\ IF out.kind = "raise"
               THEN /\ lastErr' = "builder:Exception"
                    /\ UNCHANGED <<state, layout, shown, nextId, newState, loop>>
               ELSE IF out = PyNone
               THEN /\ lastErr' = "build:AttributeError"
                    /\ state' = PyNone
                    /\ UNCHANGED <<layout, shown, nextId, newState, loop>>
               ELSE /\ state' = Build(out, "ctx")
                    /\ newState' = state'
                    /\ IF layout.exists /\ ~hostOk
                       THEN /\ lastErr' = "QApplication:RuntimeError"
                            /\ UNCHANGED <<layout, shown, nextId, loop>>
                       ELSE LET p == Paint(state')
                            IN  IF p.err # "ok"
                                THEN /\ lastErr' = "paint:TypeError"
                                     /\ layout' = [exists |-> TRUE, items |-> <<>>]
                                     /\ UNCHANGED <<shown, nextId, loop>>
                                ELSE /\ lastErr' = "ok"
                                     /\ layout' =
                                          [exists |-> TRUE,
                                           items |-> <<Item(nextId, builderCalls',
                                                            p.elem)>>]
                                     /\ shown' = shown \cup {nextId}
                                     /\ nextId' = nextId + 1
                                     /\ loop' = "exec"

\* run(): the user calls it, before the event loop, from a callback inside
\* it, or after it returned.
Run ==
    /\ \E out \in BuilderOutcomes, hostOk \in BOOLEAN :
          /\ (~layout.exists => hostOk)
          /\ Application_run(out, hostOk)
    /\ UNCHANGED <<keyVars, widgetVars, twinVars>>

\* context.setState(), called by user code.
ContextSetState ==
    /\ \E out \in BuilderOutcomes : BuildContext_setState(out)
    /\ UNCHANGED <<keyVars, widgetVars, twinVars>>

\* setState() of the root widget run() built with the Application's context.
WidgetSetState ==
    /\ state # PyNone
    /\ Widget_setState(state)
    /\ UNCHANGED <<keyVars, widgetVars, twinVars>>

\* setState() of a widget that was never built.
UnbuiltWidgetSetState ==
    /\ Widget_setState(Text__init__("a"))
    /\ UNCHANGED <<keyVars, widgetVars, twinVars>>

\* The window is closed: exec_() and with it run() return.
ExecReturn ==
    /\ loop = "exec"
    /\ loop' = "returned"
    /\ lastOp' = "exec_ returned"
    /\ lastErr' = "ok"
    /\ UNCHANGED <<ctxApplication, running, state, layout, deleted, shown,
                   nextId, builderCalls, runCalls, rerunBuilds, newState>>
    /\ UNCHANGED <<keyVars, widgetVars, twinVars>>

-----------------------------------------------------------------------------
(* Specifications *)

\* The Application.
Init == AppInit /\ KeysInit /\ WidgetIdle /\ TwinIdle

Next ==
    \/ Run
    \/ ContextSetState
    \/ WidgetSetState
    \/ UnbuiltWidgetSetState
    \/ ExecReturn

Spec == Init /\ [][Next]_vars

\* Keys.
InitKeys == KeysInit /\ AppInit /\ WidgetIdle /\ TwinIdle

NextKeys ==
    \/ NewKey
    \/ NewValueKey
    \/ NewUniqueKey
    \/ Compare

SpecKeys == InitKeys /\ [][NextKeys]_vars

\* One widget.
InitWidget == WidgetInit /\ KeysInit /\ AppInit /\ TwinIdle

NextWidget ==
    \/ WConstruct
    \/ WBuild
    \/ WPaint
    \/ WNativeEvent

SpecWidget == InitWidget /\ [][NextWidget]_vars

\* Two widgets of one class whose constructor calls differ in one argument,
\* and which differ as constructed (Text(None) is Text('')).
DiffFields(a, b) == {f \in DOMAIN a : a[f] # b[f]}

TwinInit ==
    /\ wargs \in WidgetArgs
    /\ targs \in {b \in ArgsOfKind(wargs.kind) :
                     /\ Cardinality(DiffFields(wargs, b)) = 1
                     /\ Construct(b) # Construct(wargs)}
    /\ tfield \in DiffFields(wargs, targs)
    /\ wobj = PyNone
    /\ tobj = PyNone
    /\ wphase = "args"
    /\ wpaint = NoPaint
    /\ userCalls = <<>>

HConstruct ==
    /\ wphase = "args"
    /\ wobj' = Construct(wargs)
    /\ tobj' = Construct(targs)
    /\ wphase' = IF wobj'.kind = "raise" \/ tobj'.kind = "raise"
                 THEN "raised" ELSE "constructed"
    /\ UNCHANGED <<wargs, wpaint, userCalls, targs, tfield>>
    /\ UNCHANGED <<keyVars, appVars>>

HBuildFirst ==
    /\ wphase = "constructed"
    /\ wobj.context = "None"
    /\ wobj' = Build(wobj, "ctx")
    /\ UNCHANGED <<wargs, wphase, wpaint, userCalls, twinVars>>
    /\ UNCHANGED <<keyVars, appVars>>

HBuildTwin ==
    /\ wphase = "constructed"
    /\ tobj.context = "None"
    /\ tobj' = Build(tobj, "ctx")
    /\ UNCHANGED <<widgetVars, targs, tfield>>
    /\ UNCHANGED <<keyVars, appVars>>

InitHash == TwinInit /\ KeysInit /\ AppInit

NextHash ==
    \/ HConstruct
    \/ HBuildFirst
    \/ HBuildTwin

SpecHash == InitHash /\ [][NextHash]_vars

-----------------------------------------------------------------------------
(* Claims *)

\* C5: key equality follows the variant rules.  Comparing a base Key with a
\* base Key gives true; ValueKey(v).__eq__(other) is true exactly when other
\* is a ValueKey whose value equals v; UniqueKey.__eq__(other) is true
\* exactly when other is the same UniqueKey instance.
C5_KeyEquality ==
    cmp.a # 0 =>
        LET x == keys[cmp.a]
            y == keys[cmp.b]
        IN  /\ (x.cls = "Key" /\ y.cls = "Key") => cmp.r
            /\ x.cls = "ValueKey" =>
                  (cmp.r <=> (y.cls = "ValueKey" /\ PyEq(x.value, y.value)))
            /\ x.cls = "UniqueKey" =>
                  (cmp.r <=> (y.cls = "UniqueKey" /\ cmp.a = cmp.b))

\* Two distinct UniqueKey instances were compared and found unequal.
C5_Witness ==
    /\ cmp.a # 0
    /\ cmp.a # cmp.b
    /\ keys[cmp.a].cls = "UniqueKey"
    /\ keys[cmp.b].cls = "UniqueKey"
    /\ ~cmp.r

\* C6: the effective children of an AxisAlignedBox are the declared children
\* that are not None, in their order, with flex-1 spacers Expanded(Text(''))
\* added per alignment (none: no spacer, start: one after, center: one before
\* and one after, end: one before), and with no spacer at all when a declared
\* child is an Expanded; so 0, 1 or 2 spacers are added.
C6_SpacerExpected ==
    [kind |-> "Expanded", context |-> "None", hash |-> <<"0">>,
     child |-> [kind |-> "Text", context |-> "None", hash |-> <<"0">>,
                text |-> ""],
     flex |-> [t |-> "int", v |-> 1]]

C6_EffectiveChildren ==
    (wphase = "constructed" /\ wargs.kind = "AxisAlignedBox") =>
        LET declared == SelectSeq(wargs.children, LAMBDA c : c.kind # "None")
            explicit == \E i \in 1..Len(declared) : declared[i].kind = "Expanded"
            sp == <<C6_SpacerExpected>>
            expected ==
                IF explicit THEN declared
                ELSE CASE wargs.alignment = "none" -> declared
                       [] wargs.alignment = "start" -> declared \o sp
                       [] wargs.alignment = "center" -> sp \o declared \o sp
                       [] wargs.alignment = "end" -> sp \o declared
        IN  /\ wobj.children = expected
            /\ Len(wobj.children) - Len(declared) \in {0, 1, 2}

\* A box of two plain children, centred, got a spacer on each side.
C6_Witness ==
    /\ wphase = "constructed"
    /\ wargs.kind = "AxisAlignedBox"
    /\ wargs.alignment = "center"
    /\ wargs.children = <<WidgetA, WidgetB>>
    /\ Len(wobj.children) = 4

\* The box a painted layout widget stands for: itself, or the one that
\* Column and Row made in build().
C7_Box == IF wobj.kind = "AxisAlignedBox" THEN wobj ELSE wobj.child

\* C7: a painted AxisAlignedBox, reached directly or through Column or Row,
\* has one slot per effective child, in order, and slot i's stretch is child
\* i's flex if child i is an Expanded and 0 otherwise.  [A, B] centred gives
\* the four slots spacer, A, B, spacer with stretches 1, 0, 0, 1, and
\* [Expanded(A, flex=2)] with start alignment gives one slot of stretch 2.
C7_SlotsAndStretch ==
    (/\ wphase = "painted"
     /\ wargs.kind \in {"AxisAlignedBox", "Column", "Row"}
     /\ wpaint.err = "ok") =>
        LET children == C7_Box.children
            lay == wpaint.elem.layout
        IN  /\ Len(lay.items) = Len(children)
            /\ Len(lay.stretch) = Len(children)
            /\ \A i \in 1..Len(children) :
                  /\ lay.items[i] = Paint(children[i]).elem
                  /\ lay.stretch[i] =
                        IF children[i].kind = "Expanded"
                        THEN children[i].flex.v ELSE 0
            /\ (wargs.children = <<WidgetA, WidgetB>>
                    /\ wargs.alignment = "center") =>
                  /\ lay.stretch = <<1, 0, 0, 1>>
                  /\ lay.items =
                        <<[qt |-> "QLabel", text |-> ""],
                          [qt |-> "QLabel", text |-> "a"],
                          [qt |-> "QPushButton", text |-> "a", toolTip |-> ""],
                          [qt |-> "QLabel", text |-> ""]>>
            /\ (wargs.children = <<Expanded__init__(WidgetA, PyInt(2))>>
                    /\ wargs.alignment = "start") =>
                  /\ lay.stretch = <<2>>
                  /\ lay.items = <<[qt |-> "QLabel", text |-> "a"]>>

\* A Column of [A, B], centred, was painted into four slots.
C7_Witness ==
    /\ wphase = "painted"
    /\ wargs.kind = "Column"
    /\ wargs.children = <<WidgetA, WidgetB>>
    /\ wargs.alignment = "center"
    /\ wpaint.err = "ok"
    /\ wpaint.elem.layout.stretch = <<1, 0, 0, 1>>

C9_NoCallback ==
    CASE wargs.kind = "LabelButton" -> wargs.onTap = "None"
      [] wargs.kind = "TextField" -> wargs.onChanged = "None"
      [] wargs.kind = "TableView" ->
            wargs.onSelected = "None" /\ wargs.onChanged = "None"
      [] wargs.kind = "DropdownList" -> wargs.onChanged = "None"
      [] OTHER -> FALSE

\* C9: a primitive widget constructed without a callback still paints, None
\* is never passed to signal.connect(), and a native event calls no user code.
C9_CallbacksOptional ==
    (wphase = "painted" /\ C9_NoCallback) =>
        /\ wpaint.err = "ok"
        /\ \A i \in 1..Len(wpaint.connects) :
              ~(wpaint.connects[i].via = "direct"
                    /\ wpaint.connects[i].cb = "None")
        /\ userCalls = <<>>

\* C4: two widgets of one class whose constructor arguments differ in one
\* declared field have different hashes once both are built.
C4_HashSensitivity ==
    (/\ wphase = "constructed"
     /\ wobj.context = "ctx"
     /\ tobj.context = "ctx") => wobj.hash # tobj.hash

\* C1: setState() of a widget built with the Application's context does not
\* fail (and so reaches Application.setState).
C1_WidgetSetStateDelegates ==
    lastOp = "Widget.setState" => lastErr = "ok"

\* C2: a run() call made after an earlier run() has entered the event loop
\* (from a callback inside the loop, or after the loop returned) is a no-op:
\* it does not invoke the builder.
C2_RerunIsNoOp == rerunBuilds = 0

\* C3: after run() attached the first tree and then after every successful
\* Application.setState(), the window layout holds exactly one element; it
\* was painted from the tree the latest builder call returned, after that
\* tree was built; it is a new element; and, no run() having followed the
\* one that attached the first tree, deleteLater() was called on every
\* element shown before.
C3_SingleFreshElement ==
    (/\ lastOp \in {"run", "Application.setState"}
     /\ lastErr = "ok") =>
        /\ layout.exists
        /\ Len(layout.items) = 1
        /\ LET e == layout.items[1]
           IN  /\ e.gen = builderCalls
               /\ newState.context = "ctx"
               /\ e.elem = Paint(newState).elem
               /\ e.id \notin deleted
               /\ e.id = nextId - 1
               /\ rerunBuilds = 0 => (shown \ {e.id}) \subseteq deleted

\* A second successful setState() replaced the element of the first.
C3_Witness ==
    /\ lastOp = "Application.setState"
    /\ lastErr = "ok"
    /\ rerunBuilds = 0
    /\ Cardinality(deleted) = 2
    /\ Len(layout.items) = 1

\* C10: when the builder or the build pass fails in Application.setState(),
\* the layout and the set of elements scheduled for deletion are unchanged.
C10_FailedBuildKeepsDisplay ==
    [][(/\ lastOp' = "Application.setState"
        /\ builderCalls' = builderCalls + 1
        /\ lastErr' \in {"builder:Exception", "build:AttributeError"})
           => (layout' = layout /\ deleted' = deleted)]_vars

\* The builder or the build failed in setState() while an element was shown:
\* it is still the one attached element and is not scheduled for deletion.
C10_Witness ==
    /\ lastOp = "Application.setState"
    /\ lastErr \in {"builder:Exception", "build:AttributeError"}
    /\ Len(layout.items) = 1
    /\ layout.items[1].id \notin deleted

=============================================================================
